---- MODULE Spec2Model ----
(***************************************************************************)
(* A model of gh_branch_manager: the Textual application (app.py) that     *)
(* owns the branch registry and the selection set, and the gh wrapper      *)
(* (github_api.py) whose fetch pipeline and batch deletion run on worker   *)
(* threads.                                                                *)
(*                                                                         *)
(* Threads.  Every handler of BranchManagerApp runs on the single UI       *)
(* thread, so a handler is one atomic action.  fetch_branches_background   *)
(* and delete_branches_background are @work(exclusive=True, thread=True)   *)
(* workers: each runs on a thread of its own, and every statement of a     *)
(* worker that writes shared state or talks to the remote is one action.   *)
(* call_from_thread blocks the worker until the UI thread has run the      *)
(* callback, so "worker delivers X" and "UI applies X" are one action.     *)
(* exclusive=True only marks the earlier workers of the group cancelled;   *)
(* a Python thread is not interrupted and neither worker body tests        *)
(* is_cancelled, so a superseded worker keeps running to its end.          *)
(*                                                                         *)
(* The remote (the gh CLI) is the environment: every call may succeed or   *)
(* fail (non-zero exit or timeout), chosen with \E.  What it answers on    *)
(* success is one fixed repository: six branch names, one of them the      *)
(* trunk, some with a merged and one with a closed pull request.           *)
(*                                                                         *)
(* Spec is the whole application, started over a remote with two of the    *)
(* branches.  SpecDelete is the deletion workflow of an application that   *)
(* has loaded three.                                                       *)
(* SpecStage5 is stage 5 of one fetch run over all six, SpecPool is stage 5 *)
(* of two concurrent runs over four, and SpecSelect is auto_select_merged  *)
(* over every registry of four branches.  In all of these the filter is    *)
(* empty and the sort mode is "name"; SpecView is the filter and the sort  *)
(* of the table over every registry of four branches, and SpecToggle is    *)
(* toggle_selection over the same.  SpecLive is the refresh and deletion   *)
(* workflow of Spec with every worker thread scheduled fairly, and         *)
(* SpecRefresh is refresh under a filter and a sort mode the user has set. *)
(***************************************************************************)
EXTENDS Integers, Sequences, FiniteSets, TLC

VARIABLES
    branches_data,      \* app.branches_data: list of BranchInfo
    branches_dict,      \* app.branches_dict: name -> index into branches_data
    selected_branches,  \* app.selected_branches: set of names
    loading,            \* app._loading
    gh,                 \* the GitHubBranchManager fields
    remote,             \* the branches that exist on the remote
    fw,                 \* fetch worker threads (fetch_branches_background)
    dw,                 \* deletion worker threads (delete_branches_background)
    dialog,             \* the ConfirmDeleteScreen, when pushed
    filter_text,        \* app.filter_text, as a sequence of characters
    sort_mode,          \* app.sort_mode
    table,              \* the row keys of #branch-table, top to bottom
    status_bar          \* the message #status-bar shows

vars ==
    <<branches_data, branches_dict, selected_branches, loading, gh, remote, fw, dw, dialog,
      filter_text, sort_mode, table, status_bar>>

----------------------------------------------------------------------------
(* Bounds of the model *)

\* what the user asks for in one behaviour: refreshes (the one on_mount
\* requests among them) and confirmed deletions
MaxRequests == 2

FetchIds == 1..MaxRequests

DeleteIds == 1..MaxRequests

----------------------------------------------------------------------------
(* The remote repository the model talks to *)

\* the order in which the branch listing returns the names
ListingOrder == <<"main", "fix", "feat", "wip", "doc", "dev">>

\* the same names in ascending string order, as sorted() orders them
SortedNames == <<"dev", "doc", "feat", "fix", "main", "wip">>

Names == {ListingOrder[k] : k \in 1..Len(ListingOrder)}

\* the branches on the remote when the application starts
InitialRemote == {"main", "feat"}

\* answer of `gh repo view --json defaultBranchRef`
RemoteDefaultBranch == "main"

\* head branches of the merged pull requests
RemoteMergedPRs == {"feat", "wip", "doc", "dev"}

\* head branches of the closed, unmerged pull requests
RemoteClosedPRs == {"fix"}

\* what one `gh` call can do: exit 0, or fail (non-zero exit, timeout)
CallOutcomes == {"ok", "fail"}

\* what the compare endpoint says of each branch when the call succeeds
RemoteCompare ==
    [n \in Names |->
        CASE n = "feat" -> "behind"
          [] n = "wip"  -> "ahead"
          [] n = "doc"  -> "identical"
          [] OTHER      -> "diverged"]

\* answers of the compare call; "fail" is a non-zero exit or a timeout
CompareAnswersFor(name) == {RemoteCompare[name], "fail"}

\* answers of the DELETE call: exit 0, "Reference does not exist", or any
\* other failure (another error, a timeout)
DeleteAnswers == {"ok", "not_found", "other"}

----------------------------------------------------------------------------
(* github_api.py: BranchInfo and the pure parts of GitHubBranchManager *)

\* Optional[int]
None == <<>>

Some(v) == <<v>>

BranchInfo(name, status, merge_status, pr_status, is_protected, is_default, ahead_by, behind_by) ==
    [name |-> name, status |-> status, merge_status |-> merge_status,
     pr_status |-> pr_status, is_protected |-> is_protected,
     is_default |-> is_default, ahead_by |-> ahead_by, behind_by |-> behind_by]

\* BranchInfo.is_merged
is_merged(b) == b.merge_status = "merged"

\* DEFAULT_PROTECTED_REGEX = ^(main|master|staging|dev|develop)$
MatchesProtectedRegex(name) == name \in {"main", "master", "staging", "dev", "develop"}

\* merge_status as stages 3-5 compute it from the manager's _merged_branches
MergeStatusOf(g, name) == IF name \in g.merged_branches THEN "merged" ELSE "not_merged"

\* pr_status as stages 4-5 compute it from the manager's _closed_pr_branches
PRStatusOf(g, name) == IF name \in g.closed_pr_branches THEN "closed" ELSE "not_closed"

\* stage 2 record
Placeholder(name) ==
    BranchInfo(name, "fetching", "fetching", "fetching", FALSE, FALSE, None, None)

\* stage 3 record
MergeUpdate(g, name) ==
    BranchInfo(name, "fetching", MergeStatusOf(g, name), "fetching", FALSE, FALSE, None, None)

\* stage 4 record
PRUpdate(g, name) ==
    BranchInfo(name, "fetching", MergeStatusOf(g, name), PRStatusOf(g, name),
               FALSE, FALSE, None, None)

\* _get_compare_status: (status, ahead_by, behind_by) for one answer of the remote
CompareStatus(answer) ==
    CASE answer = "identical" -> <<"identical", Some(0), Some(0)>>
      [] answer = "ahead"     -> <<"ahead", Some(1), Some(0)>>
      [] answer = "behind"    -> <<"behind", Some(0), Some(1)>>
      [] answer = "diverged"  -> <<"diverged", Some(1), Some(1)>>
      [] answer = "other"     -> <<"other", None, None>>
      [] OTHER                -> <<"unknown", None, None>>

\* _get_branch_info up to `if is_protected or is_default`: the flags and the
\* merge and PR status are read off the manager, status is still "unknown"
BranchInfoBeforeCompare(g, name) ==
    BranchInfo(name, "unknown", MergeStatusOf(g, name), PRStatusOf(g, name),
               MatchesProtectedRegex(name), name = g.default_branch, None, None)

\* the mutant of ShortCircuits: the compare call is made for every branch
NeverShortCircuits(is_protected, is_default) == FALSE

\* _get_branch_info: `if is_protected or is_default`, no compare call is made
ShortCircuits(is_protected, is_default) == is_protected \/ is_default

\* _get_branch_info: what the answer of the compare call makes of the record
WithCompare(info, answer) ==
    LET cmp == CompareStatus(answer)
    IN  [info EXCEPT !.status = cmp[1], !.ahead_by = cmp[2], !.behind_by = cmp[3]]

\* _get_branch_info: the stage 5 record; the compare call is made only for a
\* branch that is neither protected nor default
GetBranchInfo(g, name, answer) ==
    LET info == BranchInfoBeforeCompare(g, name)
    IN  IF ShortCircuits(info.is_protected, info.is_default)
        THEN [info EXCEPT !.status = "protected"]
        ELSE WithCompare(info, answer)

\* ThreadPoolExecutor(max_workers=5)
max_workers == 5

\* the mutant of ProgressDue: the last completion is not reported
ProgressDueNoLast(completed_count, n) == completed_count = 1 \/ completed_count % 5 = 0

\* stage 5: whether progress_callback is called at this completion
ProgressDue(completed_count, n) ==
    completed_count = 1 \/ completed_count % 5 = 0 \/ completed_count = n

\* the listing call on success: the remote's branches in listing order
ListingOf(r) == SelectSeq(ListingOrder, LAMBDA n : n \in r)

\* delete_branch: (success, message kind) for one answer of the remote
DeleteBranchResult(name, answer) ==
    [name |-> name, success |-> (answer = "ok"), message |-> answer]

----------------------------------------------------------------------------
(* app.py: pure helpers of BranchManagerApp *)

EmptyDict == [n \in {} |-> 0]

\* the mutant of UpsertData: the record is stored together with a second
\* write, every other record taking the status of the new one
UpsertDataAndOthers(data, dict, info) ==
    IF info.name \in DOMAIN dict
    THEN [k \in 1..Len(data) |->
             IF k = dict[info.name] THEN info ELSE [data[k] EXCEPT !.status = info.status]]
    ELSE Append(data, info)

\* _handle_branch_update, the list (indices are 1-based here, 0-based in Python)
UpsertData(data, dict, info) ==
    IF info.name \in DOMAIN dict
    THEN [data EXCEPT ![dict[info.name]] = info]
    ELSE Append(data, info)

\* the mutant of UpsertDict: a new name is mapped to the index of the last
\* record before the append
UpsertDictOffByOne(data, dict, info) ==
    IF info.name \in DOMAIN dict
    THEN dict
    ELSE [n \in (DOMAIN dict) \cup {info.name} |->
             IF n \in DOMAIN dict THEN dict[n] ELSE Len(data)]

\* _handle_branch_update, the name -> index mapping
UpsertDict(data, dict, info) ==
    IF info.name \in DOMAIN dict
    THEN dict
    ELSE [n \in (DOMAIN dict) \cup {info.name} |->
             IF n \in DOMAIN dict THEN dict[n] ELSE Len(data) + 1]

\* the linear search of action_toggle_selection: indices of the records named `name`
FindBranch(data, name) == {k \in 1..Len(data) : data[k].name = name}

FirstIndex(S) == CHOOSE k \in S : \A j \in S : k <= j

\* the mutant of Sorted: the names in the order the remote lists them
InListingOrder(S) == SelectSeq(ListingOrder, LAMBDA n : n \in S)

\* sorted(self.selected_branches)
Sorted(S) == SelectSeq(SortedNames, LAMBDA n : n \in S)

\* the mutant of AutoSelectable: every merged branch, whatever its status
AutoSelectableAnyStatus(data) ==
    {data[k].name : k \in {j \in 1..Len(data) :
        /\ ~(data[j].is_protected \/ data[j].is_default)
        /\ is_merged(data[j])}}

\* action_auto_select_merged: the names it adds
AutoSelectable(data) ==
    {data[k].name : k \in {j \in 1..Len(data) :
        /\ ~(data[j].is_protected \/ data[j].is_default)
        /\ is_merged(data[j])
        /\ data[j].status \in {"identical", "behind"}}}

\* delete_branches_background: success_count
SuccessNames(results) == {results[k].name : k \in {j \in 1..Len(results) : results[j].success}}

SuccessCount(results) == Cardinality({k \in 1..Len(results) : results[k].success})

\* the characters of a branch name
Chars(name) ==
    CASE name = "main" -> <<"m", "a", "i", "n">>
      [] name = "fix"  -> <<"f", "i", "x">>
      [] name = "feat" -> <<"f", "e", "a", "t">>
      [] name = "wip"  -> <<"w", "i", "p">>
      [] name = "doc"  -> <<"d", "o", "c">>
      [] name = "dev"  -> <<"d", "e", "v">>

\* str.lower() on one character
LowerChar(c) ==
    CASE c = "F" -> "f"
      [] c = "E" -> "e"
      [] c = "I" -> "i"
      [] c = "Z" -> "z"
      [] OTHER   -> c

\* str.lower()
Lower(text) == [k \in 1..Len(text) |-> LowerChar(text[k])]

\* `needle in hay` on strings
Contains(hay, needle) ==
    \E k \in 0..(Len(hay) - Len(needle)) : SubSeq(hay, k + 1, k + Len(needle)) = needle

\* the mutant of MatchesFilter: the filter text is compared as typed
MatchesFilterCaseSensitive(text, name) == Contains(Lower(Chars(name)), text)

\* _update_table: `self.filter_text.lower() in b.name.lower()`
MatchesFilter(text, name) == Contains(Lower(Chars(name)), Lower(text))

\* _update_table: filtered_branches before it is sorted
Filtered(data, text) == SelectSeq(data, LAMBDA b : MatchesFilter(text, b.name))

\* the place of a name in the order of Python strings
NameRank(name) == CHOOSE k \in 1..Len(SortedNames) : SortedNames[k] = name

\* _update_table: status_order.get(b.status, 7)
StatusOrder(status) ==
    CASE status = "protected" -> 0
      [] status = "diverged"  -> 1
      [] status = "ahead"     -> 2
      [] status = "behind"    -> 3
      [] status = "identical" -> 4
      [] status = "fetching"  -> 5
      [] status = "unknown"   -> 6
      [] OTHER                -> 7

\* the values of app.sort_mode
SortModes == {"name", "status", "merged"}

\* the mutant of SortKey: the merged mode puts the merged branches last
SortKeyMergedLast(mode, b) ==
    CASE mode = "status" -> <<StatusOrder(b.status), NameRank(b.name)>>
      [] mode = "merged" -> <<IF is_merged(b) THEN 1 ELSE 0, NameRank(b.name)>>
      [] OTHER           -> <<0, NameRank(b.name)>>

\* _update_table: the key of the sort, (first, name) with False < True
SortKey(mode, b) ==
    CASE mode = "status" -> <<StatusOrder(b.status), NameRank(b.name)>>
      [] mode = "merged" -> <<IF is_merged(b) THEN 0 ELSE 1, NameRank(b.name)>>
      [] OTHER           -> <<0, NameRank(b.name)>>

\* the order of Python tuples
KeyLess(k1, k2) == k1[1] < k2[1] \/ (k1[1] = k2[1] /\ k1[2] < k2[2])

\* the place list.sort(key=...), a stable sort, gives the i-th record of a
\* list with the keys `keys`: behind the records whose key is smaller and
\* those whose key is equal and that stood before it
Place(keys, i) ==
    Cardinality({j \in 1..Len(keys) :
                    \/ KeyLess(keys[j], keys[i])
                    \/ keys[j] = keys[i] /\ j < i}) + 1

\* list.sort(key=...)
SortBy(list, mode) ==
    CHOOSE sorted \in {[k \in 1..Len(l) |->
                           l[CHOOSE i \in 1..Len(l) :
                                Place([j \in 1..Len(l) |-> SortKey(mode, l[j])], i) = k]] :
                       l \in {list}} : TRUE

\* _update_table: the records it adds to the table, top to bottom
DisplaySequence(data, text, mode) == SortBy(Filtered(data, text), mode)

\* _update_table: the row keys of the table it leaves
RowKeys(data, text, mode) ==
    CHOOSE keys \in {[k \in 1..Len(shown) |-> shown[k].name] :
                        shown \in {DisplaySequence(data, text, mode)}} : TRUE

\* the branches that have a row in the table
Rows(t) == {t[k] : k \in 1..Len(t)}

\* update_status(message, error): of a message the model keeps its style,
\* "error" when the flag is set and "info" when it is not ("" is the text
\* the bar is composed with); the message that a branch cannot be selected
\* is kept apart from the other errors, with the branch it names
Msg(kind) == [kind |-> kind, name |-> ""]

\* "Cannot select protected/default branch: <name>"
NotSelectable(name) == [kind |-> "not_selectable", name |-> name]

\* _update_table ends with the "Filtered: n/m" message when a filter is set
FilteredStatus(text, otherwise) == IF text # <<>> THEN Msg("info") ELSE otherwise

----------------------------------------------------------------------------
(* Worker threads *)

\* a fetch worker: its position, and the locals of fetch_branches: the listed
\* names, the loop index, the stage 5 tasks not started and those waiting
\* for their compare answer, completed_count, the completed_count of the
\* last progress call, what it has delivered in stage 5, and which of its
\* listing, merged-PR and closed-PR calls failed
IdleFetch ==
    [pc |-> "idle", branches |-> <<>>, i |-> 0, pending |-> {}, running |-> {},
     completed_count |-> 0, reported |-> 0, delivered |-> <<>>, listFailed |-> FALSE,
     mergedFailed |-> FALSE, closedFailed |-> FALSE]

\* a deletion worker: its position, the names it was given, how many it has
\* attempted, the arguments of its last progress call, and its results
IdleDelete ==
    [pc |-> "idle", names |-> <<>>, idx |-> 0, progress |-> <<>>, results |-> <<>>,
     success_count |-> 0, failure_count |-> 0]

\* the workers not started yet; they are started in the order of their ids
FreeFetch == {r \in FetchIds : fw[r].pc = "idle"}

FreeDelete == {b \in DeleteIds : dw[b].pc = "idle"}

\* the requests made so far: every started worker but the fetch workers that
\* _handle_deletion_complete started itself
Requests ==
    Cardinality(FetchIds \ FreeFetch) + Cardinality(DeleteIds \ FreeDelete)
      - Cardinality({b \in DeleteIds : dw[b].pc \in {"finally", "done"}})

MayRequest == Requests < MaxRequests

NextFree(S) == CHOOSE k \in S : \A j \in S : k <= j

\* a worker thread that has returned
DoneFetch == [IdleFetch EXCEPT !.pc = "done"]

\* a fetch worker that has returned through its `except`: one error message
\* was put on the status bar
FailedFetch == [IdleFetch EXCEPT !.pc = "failed"]

DoneDelete == [IdleDelete EXCEPT !.pc = "done"]

\* no ConfirmDeleteScreen on the screen stack
DialogClosed == [state |-> "closed", names |-> <<>>, result |-> "none"]

\* what ModalScreen[bool].dismiss can hand to check_delete: True, False, None
DialogResults == {"yes", "no", "none"}

Init ==
    /\ branches_data = <<>>
    /\ branches_dict = EmptyDict
    /\ selected_branches = {}
    /\ loading = FALSE
    /\ gh = [repo_full |-> FALSE, default_branch |-> "", branches |-> <<>>,
             merged_branches |-> {}, closed_pr_branches |-> {}]
    /\ remote = InitialRemote
    /\ fw = [r \in FetchIds |-> IdleFetch]
    /\ dw = [b \in DeleteIds |-> IdleDelete]
    /\ dialog = DialogClosed
    /\ filter_text = <<>>
    /\ sort_mode = "name"
    /\ table = <<>>
    /\ status_bar = Msg("")

----------------------------------------------------------------------------
(* UI thread: the handlers of BranchManagerApp *)

\* The key bindings reach the app only while no modal screen is up.
UIReady == dialog.state = "closed"

\* the mutant of StartRefresh: the registry is kept
StartRefreshKeepsRegistry ==
    /\ UNCHANGED <<branches_data, branches_dict>>
    /\ fw' = [fw EXCEPT ![NextFree(FreeFetch)] = [IdleFetch EXCEPT !.pc = "start"]]

\* action_refresh: clears the registry and starts a fetch worker.  The
\* `if self._loading` test is commented out in the source: nothing is tested.
StartRefresh ==
    /\ branches_data' = <<>>
    /\ branches_dict' = EmptyDict
    /\ fw' = [fw EXCEPT ![NextFree(FreeFetch)] = [IdleFetch EXCEPT !.pc = "start"]]

\* the `r` key (and the refresh on_mount requests)
Refresh ==
    /\ UIReady
    /\ MayRequest
    /\ StartRefresh
    /\ UNCHANGED <<selected_branches, loading, gh, remote, dw, dialog,
                   filter_text, sort_mode, table, status_bar>>

\* _handle_branch_update(branch_info), run on the UI thread: the record is
\* stored and the table redrawn; `said` is what the status bar showed when
\* the callback began
HandleBranchUpdate(info, said) ==
    /\ branches_data' = UpsertData(branches_data, branches_dict, info)
    /\ branches_dict' = UpsertDict(branches_data, branches_dict, info)
    /\ table' = RowKeys(branches_data', filter_text, sort_mode)
    /\ status_bar' = FilteredStatus(filter_text, said)

\* the mutant of ToggleResult: the flags of the record are not looked at
ToggleResultUnguarded(data, sel, name) ==
    IF FindBranch(data, name) = {} THEN sel
    ELSE IF name \in sel THEN sel \ {name}
    ELSE sel \cup {name}

\* the selection after action_toggle_selection on the row of `name`
ToggleResult(data, sel, name) ==
    LET found == FindBranch(data, name) IN
    IF found = {} THEN sel
    ELSE LET branch == data[FirstIndex(found)] IN
         IF branch.is_protected \/ branch.is_default THEN sel
         ELSE IF branch.name \in sel THEN sel \ {branch.name}
         ELSE sel \cup {branch.name}

\* action_toggle_selection: what it puts on the status bar
ToggleStatus(data, name, otherwise) ==
    LET found == FindBranch(data, name) IN
    IF found = {} THEN otherwise
    ELSE LET branch == data[FirstIndex(found)] IN
         IF branch.is_protected \/ branch.is_default THEN NotSelectable(branch.name)
         ELSE Msg("info")

\* action_toggle_selection: whether it gets to _update_table
ToggleRedraws(data, name) ==
    /\ FindBranch(data, name) # {}
    /\ ~data[FirstIndex(FindBranch(data, name))].is_protected
    /\ ~data[FirstIndex(FindBranch(data, name))].is_default

\* action_toggle_selection with the cursor on the row of `name`
ToggleSelection(name) ==
    /\ UIReady
    /\ name \in Rows(table)
    /\ selected_branches' = ToggleResult(branches_data, selected_branches, name)
    /\ status_bar' = ToggleStatus(branches_data, name, status_bar)
    /\ table' = IF ToggleRedraws(branches_data, name)
                THEN RowKeys(branches_data, filter_text, sort_mode) ELSE table
    /\ UNCHANGED <<branches_data, branches_dict, loading, gh, remote, fw, dw, dialog,
                   filter_text, sort_mode>>

\* action_toggle_selection on a table without rows: there is no cell under
\* the cursor, coordinate_to_cell_key raises and the handler reports it
ToggleNoRow ==
    /\ UIReady
    /\ table = <<>>
    /\ status_bar' = Msg("error")
    /\ UNCHANGED <<branches_data, branches_dict, selected_branches, loading, gh, remote, fw, dw, dialog,
                   filter_text, sort_mode, table>>

\* action_auto_select_merged
AutoSelectMerged ==
    /\ UIReady
    /\ selected_branches' = selected_branches \cup AutoSelectable(branches_data)
    /\ table' = RowKeys(branches_data, filter_text, sort_mode)
    /\ status_bar' = Msg("info")
    /\ UNCHANGED <<branches_data, branches_dict, loading, gh, remote, fw, dw, dialog,
                   filter_text, sort_mode>>

\* action_clear_selection
ClearSelection ==
    /\ UIReady
    /\ selected_branches' = {}
    /\ table' = RowKeys(branches_data, filter_text, sort_mode)
    /\ status_bar' = Msg("info")
    /\ UNCHANGED <<branches_data, branches_dict, loading, gh, remote, fw, dw, dialog,
                   filter_text, sort_mode>>

\* action_cycle_sort: name -> status -> merged -> name
NextSortMode(mode) ==
    CASE mode = "name"   -> "status"
      [] mode = "status" -> "merged"
      [] OTHER           -> "name"

\* action_cycle_sort, the `s` key
CycleSort ==
    /\ UIReady
    /\ sort_mode' = NextSortMode(sort_mode)
    /\ table' = RowKeys(branches_data, filter_text, NextSortMode(sort_mode))
    /\ status_bar' = Msg("info")
    /\ UNCHANGED <<branches_data, branches_dict, selected_branches, loading, gh, remote, fw, dw, dialog,
                   filter_text>>

\* on_filter_changed: the text of #filter-input has become `text`
FilterChanged(text) ==
    /\ UIReady
    /\ text # filter_text
    /\ filter_text' = text
    /\ table' = RowKeys(branches_data, text, sort_mode)
    /\ status_bar' = FilteredStatus(text, status_bar)
    /\ UNCHANGED <<branches_data, branches_dict, selected_branches, loading, gh, remote, fw, dw, dialog,
                   sort_mode>>

\* action_clear_filter, the escape key
ClearFilter ==
    /\ UIReady
    /\ filter_text' = <<>>
    /\ table' = RowKeys(branches_data, <<>>, sort_mode)
    /\ status_bar' = FilteredStatus(<<>>, status_bar)
    /\ UNCHANGED <<branches_data, branches_dict, selected_branches, loading, gh, remote, fw, dw, dialog,
                   sort_mode>>

\* whether action_delete_selected gets past its two early returns
DeleteAccepted(sel, busy) == sel # {} /\ ~busy

\* action_delete_selected: rejected, or the confirmation dialog is pushed
\* with sorted(selected_branches) captured
DeleteSelected ==
    /\ UIReady
    /\ dialog' = IF DeleteAccepted(selected_branches, loading)
                 THEN [state |-> "open", names |-> Sorted(selected_branches), result |-> "none"]
                 ELSE dialog
    /\ status_bar' = IF DeleteAccepted(selected_branches, loading)
                     THEN status_bar ELSE Msg("error")
    /\ UNCHANGED <<branches_data, branches_dict, selected_branches, loading, gh, remote, fw, dw,
                   filter_text, sort_mode, table>>

\* ConfirmDeleteScreen is dismissed: y / Yes button, n / escape / No button,
\* or popped without a result
DismissDialog(result) ==
    /\ dialog.state = "open"
    /\ result = "yes" => MayRequest
    /\ dialog' = [dialog EXCEPT !.state = "dismissed", !.result = result]
    /\ UNCHANGED <<branches_data, branches_dict, selected_branches, loading, gh, remote, fw, dw,
                   filter_text, sort_mode, table, status_bar>>

\* the mutant of Proceeds: only an explicit False stops the deletion
ProceedsUnlessFalse(result) == result # "no"

\* whether check_delete(confirmed) goes on to start the deletion
Proceeds(result) == result = "yes"

\* check_delete(confirmed), the callback of the dialog
CheckDelete ==
    /\ dialog.state = "dismissed"
    /\ Proceeds(dialog.result) => MayRequest
    /\ dw' = IF Proceeds(dialog.result)
             THEN [dw EXCEPT ![NextFree(FreeDelete)] =
                      [IdleDelete EXCEPT !.pc = "start", !.names = dialog.names]]
             ELSE dw
    /\ dialog' = DialogClosed
    /\ status_bar' = IF dialog.result = "none" THEN Msg("error") ELSE Msg("info")
    /\ UNCHANGED <<branches_data, branches_dict, selected_branches, loading, gh, remote, fw,
                   filter_text, sort_mode, table>>

----------------------------------------------------------------------------
(* Fetch worker: fetch_branches_background and GitHubBranchManager.fetch_branches *)

\* the mutant of AfterLoop: the loop is left one turn early
AfterLoopShort(branches, i, inLoop, next) == IF i + 1 < Len(branches) THEN inLoop ELSE next

\* where a run goes once a per-branch loop over `branches` has reached index i
AfterLoop(branches, i, inLoop, next) == IF i < Len(branches) THEN inLoop ELSE next

\* `self._loading = True`, the first statement of the worker
FetchStart(r) ==
    /\ fw[r].pc = "start"
    /\ loading' = TRUE
    /\ fw' = [fw EXCEPT ![r].pc = "repo"]
    /\ status_bar' = Msg("info")
    /\ UNCHANGED <<branches_data, branches_dict, selected_branches, gh, remote, dw, dialog,
                   filter_text, sort_mode, table>>

\* what get_repo_info can meet: both calls exit 0, the first fails, or the
\* first exits 0 and the second fails (a failure is a non-zero exit, a
\* timeout, or no gh at all)
RepoInfoOutcomes == {"ok", "fail", "fail_trunk"}

\* get_repo_info: the manager after the calls
GetRepoInfo(g, outcome) ==
    CASE outcome = "ok"         -> [g EXCEPT !.repo_full = TRUE,
                                             !.default_branch = RemoteDefaultBranch]
      [] outcome = "fail_trunk" -> [g EXCEPT !.repo_full = TRUE]
      [] OTHER                  -> g

\* the mutant of LoadingAfterRepoInfo: no `finally` on the way out
LoadingAfterRepoInfoKept(outcome, busy) == busy

\* _loading after get_repo_info: when it raises, the worker leaves through
\* `except` and `finally`, which resets the flag
LoadingAfterRepoInfo(outcome, busy) == IF outcome = "ok" THEN busy ELSE FALSE

\* get_repo_info: on failure the exception reaches the handler of
\* fetch_branches_background, which reports it; `finally` resets _loading
FetchRepoInfo(r, outcome) ==
    /\ fw[r].pc = "repo"
    /\ gh' = GetRepoInfo(gh, outcome)
    /\ fw' = IF outcome = "ok" THEN [fw EXCEPT ![r].pc = "list"]
                               ELSE [fw EXCEPT ![r] = FailedFetch]
    /\ loading' = LoadingAfterRepoInfo(outcome, loading)
    /\ status_bar' = IF outcome = "ok" THEN Msg("info") ELSE Msg("error")
    /\ UNCHANGED <<branches_data, branches_dict, selected_branches, remote, dw, dialog,
                   filter_text, sort_mode, table>>

\* _fetch_all_branches: the names on exit 0, [] on a non-zero exit or a timeout
FetchAllBranches(r, outcome) == IF outcome = "ok" THEN ListingOf(r) ELSE <<>>

\* stage 2 begins: the listing call
FetchListing(r, outcome) ==
    /\ fw[r].pc = "list"
    /\ LET branches == FetchAllBranches(remote, outcome) IN
       fw' = [fw EXCEPT ![r].branches = branches, ![r].i = 0,
                        ![r].listFailed = (outcome # "ok"),
                        ![r].pc = AfterLoop(branches, 0, "s2", "merged")]
    /\ UNCHANGED <<branches_data, branches_dict, selected_branches, loading, gh, remote, dw, dialog,
                   filter_text, sort_mode, table, status_bar>>

\* stage 2: one placeholder is delivered
FetchPlaceholder(r) ==
    /\ fw[r].pc = "s2"
    /\ HandleBranchUpdate(Placeholder(fw[r].branches[fw[r].i + 1]), status_bar)
    /\ fw' = [fw EXCEPT ![r].i = @ + 1,
                        ![r].pc = AfterLoop(fw[r].branches, fw[r].i + 1, "s2", "merged")]
    /\ UNCHANGED <<selected_branches, loading, gh, remote, dw, dialog, filter_text, sort_mode>>

\* _fetch_merged_branches: the set is replaced on exit 0 only
FetchMergedBranches(g, outcome) ==
    IF outcome = "ok" THEN [g EXCEPT !.merged_branches = RemoteMergedPRs] ELSE g

\* stage 3 begins: the merged pull requests are fetched
FetchMerged(r, outcome) ==
    /\ fw[r].pc = "merged"
    /\ gh' = FetchMergedBranches(gh, outcome)
    /\ fw' = [fw EXCEPT ![r].i = 0, ![r].mergedFailed = (outcome # "ok"),
                        ![r].pc = AfterLoop(fw[r].branches, 0, "s3", "closed")]
    /\ status_bar' = Msg("info")
    /\ UNCHANGED <<branches_data, branches_dict, selected_branches, loading, remote, dw, dialog,
                   filter_text, sort_mode, table>>

\* stage 3: one record with its merge status is delivered
FetchMergeUpdate(r) ==
    /\ fw[r].pc = "s3"
    /\ HandleBranchUpdate(MergeUpdate(gh, fw[r].branches[fw[r].i + 1]), status_bar)
    /\ fw' = [fw EXCEPT ![r].i = @ + 1,
                        ![r].pc = AfterLoop(fw[r].branches, fw[r].i + 1, "s3", "closed")]
    /\ UNCHANGED <<selected_branches, loading, gh, remote, dw, dialog, filter_text, sort_mode>>

\* _fetch_closed_pr_branches: the set is replaced on exit 0 only
FetchClosedPRBranches(g, outcome) ==
    IF outcome = "ok" THEN [g EXCEPT !.closed_pr_branches = RemoteClosedPRs] ELSE g

\* stage 4 begins: the closed pull requests are fetched
FetchClosed(r, outcome) ==
    /\ fw[r].pc = "closed"
    /\ gh' = FetchClosedPRBranches(gh, outcome)
    /\ fw' = [fw EXCEPT ![r].i = 0, ![r].closedFailed = (outcome # "ok"),
                        ![r].pc = AfterLoop(fw[r].branches, 0, "s4", "pool")]
    /\ status_bar' = Msg("info")
    /\ UNCHANGED <<branches_data, branches_dict, selected_branches, loading, remote, dw, dialog,
                   filter_text, sort_mode, table>>

\* stage 4: one record with its PR status is delivered
FetchPRUpdate(r) ==
    /\ fw[r].pc = "s4"
    /\ HandleBranchUpdate(PRUpdate(gh, fw[r].branches[fw[r].i + 1]), status_bar)
    /\ fw' = [fw EXCEPT ![r].i = @ + 1,
                        ![r].pc = AfterLoop(fw[r].branches, fw[r].i + 1, "s4", "pool")]
    /\ UNCHANGED <<selected_branches, loading, gh, remote, dw, dialog, filter_text, sort_mode>>

\* stage 5 begins: self.branches and completed_count are reset and every
\* branch is submitted to the pool
FetchSubmit(r) ==
    /\ fw[r].pc = "pool"
    /\ gh' = [gh EXCEPT !.branches = <<>>]
    /\ fw' = [fw EXCEPT ![r].pending = {fw[r].branches[k] : k \in 1..Len(fw[r].branches)},
                        ![r].completed_count = 0,
                        ![r].pc = IF Len(fw[r].branches) = 0 THEN "finish" ELSE "s5"]
    /\ status_bar' = Msg("info")
    /\ UNCHANGED <<branches_data, branches_dict, selected_branches, loading, remote, dw, dialog,
                   filter_text, sort_mode, table>>

\* the names whose compare request this run has in flight
Comparing(w) == {info.name : info \in w.running}

\* stage 5: a pool thread takes the task of a branch that does not
\* short-circuit and runs _get_branch_info up to the compare request, which
\* it sends
GetBranchInfoStart(r, name) ==
    /\ fw[r].pc = "s5"
    /\ name \in fw[r].pending
    /\ Cardinality(fw[r].running) < max_workers
    /\ LET info == BranchInfoBeforeCompare(gh, name) IN
       /\ ~ShortCircuits(info.is_protected, info.is_default)
       /\ fw' = [fw EXCEPT ![r].pending = @ \ {name}, ![r].running = @ \cup {info}]
    /\ UNCHANGED <<branches_data, branches_dict, selected_branches, loading, gh, remote, dw, dialog,
                   filter_text, sort_mode, table, status_bar>>

\* the record a task of stage 5 returns: of a task waiting for its compare
\* answer, or of a task not started whose branch short-circuits
TaskResults(w, g, name, answer) ==
    {WithCompare(info, answer) : info \in {i \in w.running : i.name = name}}
      \cup {GetBranchInfo(g, n, answer) :
               n \in {m \in w.pending \cap {name} :
                        /\ Cardinality(w.running) < max_workers
                        /\ ShortCircuits(BranchInfoBeforeCompare(g, m).is_protected,
                                         BranchInfoBeforeCompare(g, m).is_default)}}

\* the worker after as_completed has handed it the record of a finished task
Completed(w, info) ==
    LET k == w.completed_count + 1 IN
    [w EXCEPT !.pending = @ \ {info.name},
              !.running = {i \in @ : i.name # info.name},
              !.completed_count = k,
              !.reported = IF ProgressDue(k, Len(w.branches)) THEN k ELSE @,
              !.delivered = Append(@, info),
              !.pc = IF (w.pending \cup Comparing(w)) \ {info.name} = {}
                     THEN "finish" ELSE "s5"]

\* stage 5: the task of one branch finishes (in any order) and the loop over
\* as_completed appends its record to self.branches, counts it, reports
\* progress when due and delivers the record
FetchBranchInfo(r, name, answer) ==
    /\ fw[r].pc = "s5"
    /\ \E info \in TaskResults(fw[r], gh, name, answer) :
          /\ gh' = [gh EXCEPT !.branches = Append(@, info)]
          /\ HandleBranchUpdate(info, IF Completed(fw[r], info).reported # fw[r].reported
                                      THEN Msg("info") ELSE status_bar)
          /\ fw' = [fw EXCEPT ![r] = Completed(fw[r], info)]
    /\ UNCHANGED <<selected_branches, loading, remote, dw, dialog, filter_text, sort_mode>>

\* fetch_branches returned: "Loaded n branches" is reported and `finally`
\* resets _loading
FetchFinish(r) ==
    /\ fw[r].pc = "finish"
    /\ loading' = FALSE
    /\ fw' = [fw EXCEPT ![r] = DoneFetch]
    /\ status_bar' = Msg("info")
    /\ UNCHANGED <<branches_data, branches_dict, selected_branches, gh, remote, dw, dialog,
                   filter_text, sort_mode, table>>

----------------------------------------------------------------------------
(* Deletion worker: delete_branches_background and delete_branches *)

\* `self._loading = True`, the first statement of the worker
DeleteStart(b) ==
    /\ dw[b].pc = "start"
    /\ loading' = TRUE
    /\ dw' = [dw EXCEPT ![b].pc = IF Len(dw[b].names) = 0 THEN "complete" ELSE "loop",
                        ![b].idx = 0]
    /\ status_bar' = Msg("info")
    /\ UNCHANGED <<branches_data, branches_dict, selected_branches, gh, remote, fw, dialog,
                   filter_text, sort_mode, table>>

\* what the remote can answer to DELETE of `name`: "not_found" also when
\* somebody else has removed the ref since it was listed
DeleteAnswersFor(name, rem) ==
    IF name \in rem THEN {"ok", "not_found", "other"} ELSE {"not_found", "other"}

\* the mutant of ContinueAfter: the loop gives up at the first failed delete
ContinueAfterOrAbort(names, idx, result) ==
    IF result.success THEN AfterLoop(names, idx, "loop", "complete") ELSE "complete"

\* delete_branches: after the result of names[idx] is appended the loop goes
\* on to the next name, whatever the result was
ContinueAfter(names, idx, result) == AfterLoop(names, idx, "loop", "complete")

\* the mutant of ProgressArgs: the index counts from 0
ProgressArgsFromZero(names, done) == <<done, Len(names), names[done + 1]>>

\* delete_branches: the arguments of progress_callback in the turn that
\* follows `done` attempts, `for idx, branch_name in enumerate(branch_names, 1)`
ProgressArgs(names, done) == <<done + 1, Len(names), names[done + 1]>>

\* delete_branches: a turn of its loop begins: progress_callback(idx, total,
\* name) is called and the DELETE of the name is sent
DeleteIssue(b) ==
    /\ dw[b].pc = "loop"
    /\ dw' = [dw EXCEPT ![b].progress = ProgressArgs(dw[b].names, dw[b].idx),
                        ![b].pc = "deleting"]
    /\ status_bar' = Msg("info")
    /\ UNCHANGED <<branches_data, branches_dict, selected_branches, loading, gh, remote, fw, dialog,
                   filter_text, sort_mode, table>>

\* delete_branches: the DELETE is answered and its result appended
DeleteNext(b, answer) ==
    /\ dw[b].pc = "deleting"
    /\ LET name == dw[b].names[dw[b].idx + 1] IN
       /\ answer \in DeleteAnswersFor(name, remote)
       /\ remote' = IF answer \in {"ok", "not_found"} THEN remote \ {name} ELSE remote
       /\ dw' = [dw EXCEPT ![b].results = Append(@, DeleteBranchResult(name, answer)),
                           ![b].idx = @ + 1,
                           ![b].pc = ContinueAfter(dw[b].names, dw[b].idx + 1,
                                                   DeleteBranchResult(name, answer))]
    /\ UNCHANGED <<branches_data, branches_dict, selected_branches, loading, gh, fw, dialog,
                   filter_text, sort_mode, table, status_bar>>

\* the mutant of SelectionAfterDeletion: every attempted name is unselected
SelectionAfterDeletionAll(sel, results) ==
    sel \ {results[k].name : k \in 1..Len(results)}

\* _handle_deletion_complete: the selection it leaves
SelectionAfterDeletion(sel, results) == sel \ SuccessNames(results)

\* the counts are taken and _handle_deletion_complete runs on the UI thread:
\* it unselects the deleted names and calls action_refresh
DeleteComplete(b) ==
    /\ dw[b].pc = "complete"
    /\ selected_branches' = SelectionAfterDeletion(selected_branches, dw[b].results)
    /\ dw' = [dw EXCEPT ![b].success_count = SuccessCount(dw[b].results),
                        ![b].failure_count = Len(dw[b].results) - SuccessCount(dw[b].results),
                        ![b].pc = "finally"]
    /\ StartRefresh
    /\ status_bar' = IF SuccessCount(dw[b].results) = Len(dw[b].results)
                     THEN Msg("info") ELSE Msg("error")
    /\ UNCHANGED <<loading, gh, remote, dialog, filter_text, sort_mode, table>>

\* `self._loading = False`, the last statement of the worker
DeleteFinish(b) ==
    /\ dw[b].pc = "finally"
    /\ loading' = FALSE
    /\ dw' = [dw EXCEPT ![b] = DoneDelete]
    /\ UNCHANGED <<branches_data, branches_dict, selected_branches, gh, remote, fw, dialog,
                   filter_text, sort_mode, table, status_bar>>

----------------------------------------------------------------------------
Next ==
    \/ Refresh
    \/ \E name \in Names : ToggleSelection(name)
    \/ ToggleNoRow
    \/ AutoSelectMerged
    \/ ClearSelection
    \/ DeleteSelected
    \/ \E result \in DialogResults : DismissDialog(result)
    \/ CheckDelete
    \/ \E r \in FetchIds : FetchStart(r)
    \/ \E r \in FetchIds, outcome \in RepoInfoOutcomes : FetchRepoInfo(r, outcome)
    \/ \E r \in FetchIds, outcome \in CallOutcomes : FetchListing(r, outcome)
    \/ \E r \in FetchIds : FetchPlaceholder(r)
    \/ \E r \in FetchIds, outcome \in CallOutcomes : FetchMerged(r, outcome)
    \/ \E r \in FetchIds : FetchMergeUpdate(r)
    \/ \E r \in FetchIds, outcome \in CallOutcomes : FetchClosed(r, outcome)
    \/ \E r \in FetchIds : FetchPRUpdate(r)
    \/ \E r \in FetchIds : FetchSubmit(r)
    \/ \E r \in FetchIds, name \in Names : GetBranchInfoStart(r, name)
    \/ \E r \in FetchIds, name \in Names : \E answer \in CompareAnswersFor(name) : FetchBranchInfo(r, name, answer)
    \/ \E r \in FetchIds : FetchFinish(r)
    \/ \E b \in DeleteIds : DeleteStart(b)
    \/ \E b \in DeleteIds : DeleteIssue(b)
    \/ \E b \in DeleteIds, answer \in DeleteAnswers : DeleteNext(b, answer)
    \/ \E b \in DeleteIds : DeleteComplete(b)
    \/ \E b \in DeleteIds : DeleteFinish(b)

Spec == Init /\ [][Next]_vars

\* a step of the thread of fetch worker r
FetchStep(r) ==
    \/ FetchStart(r)
    \/ \E outcome \in RepoInfoOutcomes : FetchRepoInfo(r, outcome)
    \/ \E outcome \in CallOutcomes : FetchListing(r, outcome)
    \/ FetchPlaceholder(r)
    \/ \E outcome \in CallOutcomes : FetchMerged(r, outcome)
    \/ FetchMergeUpdate(r)
    \/ \E outcome \in CallOutcomes : FetchClosed(r, outcome)
    \/ FetchPRUpdate(r)
    \/ FetchSubmit(r)
    \/ \E name \in Names : GetBranchInfoStart(r, name)
    \/ \E name \in Names : \E answer \in CompareAnswersFor(name) : FetchBranchInfo(r, name, answer)
    \/ FetchFinish(r)

\* a step of the thread of deletion worker b
DeleteStep(b) ==
    \/ DeleteStart(b)
    \/ DeleteIssue(b)
    \/ \E answer \in DeleteAnswers : DeleteNext(b, answer)
    \/ DeleteComplete(b)
    \/ DeleteFinish(b)

\* every worker thread that can take a step takes one in the end: the
\* threads are scheduled by the operating system, every gh call has a
\* timeout, and the UI thread runs the callbacks call_from_thread hands it
FairScheduling ==
    /\ \A r \in FetchIds : WF_vars(FetchStep(r))
    /\ \A b \in DeleteIds : WF_vars(DeleteStep(b))

\* the requests of the user that start workers, with auto_select_merged to
\* have something to delete, and the workers
NextLive ==
    \/ Refresh
    \/ AutoSelectMerged
    \/ DeleteSelected
    \/ \E result \in DialogResults : DismissDialog(result)
    \/ CheckDelete
    \/ \E r \in FetchIds : FetchStep(r)
    \/ \E b \in DeleteIds : DeleteStep(b)

\* the application under fair scheduling of its worker threads; the user is
\* under no obligation
SpecLive == Init /\ [][NextLive]_vars /\ FairScheduling

----------------------------------------------------------------------------
(* The deletion workflow, from an application whose first fetch run (the one *)
(* on_mount requests) has completed over a remote of three branches.         *)

\* the manager after a fetch run whose calls all succeeded
LoadedManager ==
    [repo_full |-> TRUE, default_branch |-> RemoteDefaultBranch, branches |-> <<>>,
     merged_branches |-> RemoteMergedPRs, closed_pr_branches |-> RemoteClosedPRs]

\* the branches on the remote during that run
LoadedRemote == {"main", "fix", "feat"}

\* the registry that run leaves, for the compare answers `ans`
LoadedData(ans) ==
    [k \in 1..Len(ListingOf(LoadedRemote)) |->
        GetBranchInfo(LoadedManager, ListingOf(LoadedRemote)[k], ans[ListingOf(LoadedRemote)[k]])]

LoadedDict ==
    [n \in LoadedRemote |->
        CHOOSE k \in 1..Len(ListingOf(LoadedRemote)) : ListingOf(LoadedRemote)[k] = n]

InitLoaded ==
    /\ \E ans \in [LoadedRemote -> {"behind", "diverged", "fail"}] :
          /\ \A n \in LoadedRemote : ans[n] \in CompareAnswersFor(n)
          /\ branches_data = LoadedData(ans)
    /\ branches_dict = LoadedDict
    /\ selected_branches = {}
    /\ loading = FALSE
    /\ gh = LoadedManager
    /\ remote = LoadedRemote
    /\ fw = [r \in FetchIds |-> IdleFetch]
    /\ dw = [b \in DeleteIds |-> IdleDelete]
    /\ dialog = DialogClosed
    /\ filter_text = <<>>
    /\ sort_mode = "name"
    /\ table = RowKeys(branches_data, filter_text, sort_mode)
    /\ status_bar = Msg("info")

\* the user's intents but refresh, and the deletion workers; the fetch worker
\* that a completed batch starts is the subject of Spec
NextDelete ==
    \/ \E name \in Names : ToggleSelection(name)
    \/ AutoSelectMerged
    \/ ClearSelection
    \/ DeleteSelected
    \/ \E result \in DialogResults : DismissDialog(result)
    \/ CheckDelete
    \/ \E b \in DeleteIds : DeleteStart(b)
    \/ \E b \in DeleteIds : DeleteIssue(b)
    \/ \E b \in DeleteIds, answer \in DeleteAnswers : DeleteNext(b, answer)
    \/ \E b \in DeleteIds : DeleteComplete(b)
    \/ \E b \in DeleteIds : DeleteFinish(b)

SpecDelete == InitLoaded /\ [][NextDelete]_vars

----------------------------------------------------------------------------
(* Stage 5 alone.  The application is in the middle of a refresh over a     *)
(* remote that holds all six branches: stages 1 to 4 have succeeded and     *)
(* delivered their records, and the worker is about to submit the           *)
(* per-branch tasks.                                                        *)

\* the registry after stage 4 of a run over the remote `rem`
Stage4Data(rem) ==
    [k \in 1..Len(ListingOf(rem)) |-> PRUpdate(LoadedManager, ListingOf(rem)[k])]

Stage4Dict(rem) ==
    [n \in rem |-> CHOOSE k \in 1..Len(ListingOf(rem)) : ListingOf(rem)[k] = n]

\* a fetch worker that has finished stage 4 over the remote `rem`
AtPool(rem) ==
    [IdleFetch EXCEPT !.pc = "pool", !.branches = ListingOf(rem), !.i = Len(ListingOf(rem))]

InitStage5 ==
    /\ branches_data = Stage4Data(Names)
    /\ branches_dict = Stage4Dict(Names)
    /\ selected_branches = {}
    /\ loading = TRUE
    /\ gh = LoadedManager
    /\ remote = Names
    /\ fw = [r \in FetchIds |-> IF r = 1 THEN AtPool(Names) ELSE IdleFetch]
    /\ dw = [b \in DeleteIds |-> IdleDelete]
    /\ dialog = DialogClosed
    /\ filter_text = <<>>
    /\ sort_mode = "name"
    /\ table = RowKeys(branches_data, filter_text, sort_mode)
    /\ status_bar = Msg("info")

NextStage5 ==
    \/ \E r \in FetchIds : FetchSubmit(r)
    \/ \E r \in FetchIds, name \in Names : GetBranchInfoStart(r, name)
    \/ \E r \in FetchIds, name \in Names : \E answer \in CompareAnswersFor(name) : FetchBranchInfo(r, name, answer)
    \/ \E r \in FetchIds : FetchFinish(r)

SpecStage5 == InitStage5 /\ [][NextStage5]_vars

----------------------------------------------------------------------------
(* Two runs in stage 5 at once.  Refresh was requested twice over a remote  *)
(* of four branches; both workers have gone through stages 1 to 4, have     *)
(* submitted their tasks to their pools and have got the record of the      *)
(* trunk back, each after the other had reset self.branches.                *)

\* the remote of the two concurrent runs
PoolRemote == {"main", "fix", "feat", "wip"}

\* the stage 5 record of the trunk
TrunkInfo == GetBranchInfo(LoadedManager, RemoteDefaultBranch, "fail")

\* a fetch worker over PoolRemote once the record of the trunk has come back
AfterTrunk ==
    Completed([AtPool(PoolRemote) EXCEPT !.pc = "s5", !.pending = PoolRemote], TrunkInfo)

InitPool ==
    /\ branches_data = UpsertData(Stage4Data(PoolRemote), Stage4Dict(PoolRemote), TrunkInfo)
    /\ branches_dict = Stage4Dict(PoolRemote)
    /\ selected_branches = {}
    /\ loading = TRUE
    /\ gh = [LoadedManager EXCEPT !.branches = <<TrunkInfo, TrunkInfo>>]
    /\ remote = PoolRemote
    /\ fw = [r \in FetchIds |-> IF r \in {1, 2} THEN AfterTrunk ELSE IdleFetch]
    /\ dw = [b \in DeleteIds |-> IdleDelete]
    /\ dialog = DialogClosed
    /\ filter_text = <<>>
    /\ sort_mode = "name"
    /\ table = RowKeys(branches_data, filter_text, sort_mode)
    /\ status_bar = Msg("info")

NextPool ==
    \/ \E r \in FetchIds, name \in Names : GetBranchInfoStart(r, name)
    \/ \E r \in FetchIds, name \in Names : \E answer \in CompareAnswersFor(name) : FetchBranchInfo(r, name, answer)
    \/ \E r \in FetchIds : FetchFinish(r)

SpecPool == InitPool /\ [][NextPool]_vars

----------------------------------------------------------------------------
(* auto_select_merged as a function of the registry.  The registry holds    *)
(* four branches, each with any record a fetch run can have delivered for   *)
(* it, under any set of merged pull requests and any answer of the compare  *)
(* call; the user has selected by hand some of the branches that            *)
(* auto_select_merged does not pick.                                        *)

\* what the compare call can answer over the life of a repository
AllCompareAnswers == {"identical", "ahead", "behind", "diverged", "fail"}

\* the manager after a successful stage 3 that found the merged set M
ManagerWith(M) == [LoadedManager EXCEPT !.merged_branches = M]

\* the records stages 4 and 5 can leave in the registry for `name`
RecordsOf(g, name) ==
    {PRUpdate(g, name)} \cup {GetBranchInfo(g, name, a) : a \in AllCompareAnswers}

\* the registries over PoolRemote, in listing order
RegistriesOf(g) ==
    {<<r1, r2, r3, r4>> : r1 \in RecordsOf(g, ListingOf(PoolRemote)[1]),
                          r2 \in RecordsOf(g, ListingOf(PoolRemote)[2]),
                          r3 \in RecordsOf(g, ListingOf(PoolRemote)[3]),
                          r4 \in RecordsOf(g, ListingOf(PoolRemote)[4])}

InitSelect ==
    /\ \E M \in SUBSET PoolRemote :
          /\ gh = ManagerWith(M)
          /\ branches_data \in RegistriesOf(ManagerWith(M))
    /\ branches_dict = Stage4Dict(PoolRemote)
    /\ selected_branches \in SUBSET ((PoolRemote \ AutoSelectable(branches_data))
                                        \ {n \in PoolRemote : MatchesProtectedRegex(n)})
    /\ loading = FALSE
    /\ remote = PoolRemote
    /\ fw = [r \in FetchIds |-> IdleFetch]
    /\ dw = [b \in DeleteIds |-> IdleDelete]
    /\ dialog = DialogClosed
    /\ filter_text = <<>>
    /\ sort_mode = "name"
    /\ table = RowKeys(branches_data, filter_text, sort_mode)
    /\ status_bar = Msg("info")

NextSelect == AutoSelectMerged \/ ClearSelection

SpecSelect == InitSelect /\ [][NextSelect]_vars

----------------------------------------------------------------------------
(* toggle_selection as a function of the registry and the selection.  The   *)
(* registry is any of those of SpecSelect, every record has its row, and    *)
(* the user, starting with nothing selected, toggles one row after another. *)

InitToggle ==
    /\ \E M \in SUBSET PoolRemote :
          /\ gh = ManagerWith(M)
          /\ branches_data \in RegistriesOf(ManagerWith(M))
    /\ branches_dict = Stage4Dict(PoolRemote)
    /\ selected_branches = {}
    /\ loading = FALSE
    /\ remote = PoolRemote
    /\ fw = [r \in FetchIds |-> IdleFetch]
    /\ dw = [b \in DeleteIds |-> IdleDelete]
    /\ dialog = DialogClosed
    /\ filter_text = <<>>
    /\ sort_mode = "name"
    /\ table = RowKeys(branches_data, filter_text, sort_mode)
    /\ status_bar = Msg("info")

NextToggle == \E name \in Names : ToggleSelection(name)

SpecToggle == InitToggle /\ [][NextToggle]_vars

----------------------------------------------------------------------------
(* The table as a function of the registry, the filter and the sort mode.   *)
(* The registry holds four branches, each with any record stages 4 and 5    *)
(* can have left for it, a compare status outside the priority table among  *)
(* them; the user has run auto_select_merged, then types into the filter,   *)
(* clears it, and cycles the sort mode.                                     *)

\* what the user types into #filter-input (none of the letters is a key
\* binding of the app)
FilterTexts == {<<>>, <<"f">>, <<"F", "E">>, <<"i">>, <<"z">>}

\* the compare answers, one with a status the priority table does not list
ViewCompareAnswers == AllCompareAnswers \cup {"other"}

\* the records stages 4 and 5 can leave in the registry for `name`
ViewRecordsOf(g, name) ==
    {PRUpdate(g, name)} \cup {GetBranchInfo(g, name, a) : a \in ViewCompareAnswers}

\* the registries over PoolRemote, in listing order
ViewRegistriesOf(g) ==
    {<<r1, r2, r3, r4>> : r1 \in ViewRecordsOf(g, ListingOf(PoolRemote)[1]),
                          r2 \in ViewRecordsOf(g, ListingOf(PoolRemote)[2]),
                          r3 \in ViewRecordsOf(g, ListingOf(PoolRemote)[3]),
                          r4 \in ViewRecordsOf(g, ListingOf(PoolRemote)[4])}

InitView ==
    /\ \E M \in SUBSET PoolRemote :
          /\ gh = ManagerWith(M)
          /\ branches_data \in ViewRegistriesOf(ManagerWith(M))
    /\ branches_dict = Stage4Dict(PoolRemote)
    /\ selected_branches = AutoSelectable(branches_data)
    /\ loading = FALSE
    /\ remote = PoolRemote
    /\ fw = [r \in FetchIds |-> IdleFetch]
    /\ dw = [b \in DeleteIds |-> IdleDelete]
    /\ dialog = DialogClosed
    /\ filter_text = <<>>
    /\ sort_mode = "name"
    /\ table = RowKeys(branches_data, filter_text, sort_mode)
    /\ status_bar = Msg("info")

NextView ==
    \/ CycleSort
    \/ \E text \in FilterTexts : FilterChanged(text)
    \/ ClearFilter

SpecView == InitView /\ [][NextView]_vars

----------------------------------------------------------------------------
(* SpecRefresh: what a refresh leaves alone                                *)
(*                                                                         *)
(* The application has loaded three branches; the user types into the      *)
(* filter, cycles the sort mode, selects the merged branches, deletes them *)
(* and presses r.  A refresh is requested by the key and by the completion *)
(* of a batch; the fetch run it starts is the subject of Spec.             *)

NextRefresh ==
    \/ Refresh
    \/ CycleSort
    \/ \E text \in FilterTexts : FilterChanged(text)
    \/ AutoSelectMerged
    \/ DeleteSelected
    \/ \E result \in DialogResults : DismissDialog(result)
    \/ CheckDelete
    \/ \E b \in DeleteIds : DeleteStep(b)

SpecRefresh == InitLoaded /\ [][NextRefresh]_vars

----------------------------------------------------------------------------
(* Properties *)

\* the names in the registry
RegistryNames == {branches_data[k].name : k \in 1..Len(branches_data)}

\* a branch that must never be deleted: its name matches the protected
\* pattern, or it is the trunk the manager resolved
ProtectedOrDefault(name) == MatchesProtectedRegex(name) \/ name = gh.default_branch

\* the worker threads that have been started and have not returned
ActiveFetch == {r \in FetchIds : fw[r].pc \notin {"idle", "done", "failed"}}

ActiveDelete == {b \in DeleteIds : dw[b].pc \notin {"idle", "done"}}

\* C1: a refresh requested while a fetch run is active starts no second
\* run, so at most one fetch run is in progress at any time.
C1_AtMostOneFetchRun == Cardinality(ActiveFetch) <= 1

\* C2: toggle_selection never puts a protected or default branch into the
\* selection set, in any state, also while placeholders are being delivered.
C2_NoProtectedSelected == \A n \in selected_branches : ~ProtectedOrDefault(n)

\* C3: no delete_branch call is ever issued for a protected or default
\* branch (every call appends its result to the batch's results).
C3_NoProtectedDeleted ==
    \A b \in DeleteIds : \A k \in 1..Len(dw[b].results) :
        ~ProtectedOrDefault(dw[b].results[k].name)

\* C4: in every state the selection set is a subset of the registry's names
\* minus the protected and default branches.
C4_SelectionWithinRegistry ==
    selected_branches \subseteq {n \in RegistryNames : ~ProtectedOrDefault(n)}

\* C5: a deletion worker is started only by check_delete run with an explicit
\* yes; check_delete run with no, or with no answer, starts no worker and
\* leaves the registry, the selection, the remote and the workers (so the
\* delete calls made) as they were.
C5_ConfirmationGate ==
    [][/\ \A b \in DeleteIds :
             (dw[b].pc = "idle" /\ dw'[b].pc # "idle")
                => (dialog.state = "dismissed" /\ dialog.result = "yes")
       /\ (dialog.state = "dismissed" /\ dialog.result \in {"no", "none"}
              /\ dialog'.state = "closed")
            => UNCHANGED <<branches_data, branches_dict, selected_branches, remote, dw, fw>>
      ]_vars

\* C5 witness: the dialog over two names has been dismissed without an
\* answer and check_delete is about to run.
C5_Witness ==
    /\ dialog.state = "dismissed"
    /\ dialog.result = "none"
    /\ Len(dialog.names) = 2
    /\ ActiveDelete = {}

\* C6: a batch attempts its names in input order, one result per name: the
\* results so far are the results of the first idx names, and once the loop
\* has ended every name has its result, whatever the single deletes returned.
C6_OneResultPerName ==
    \A b \in DeleteIds :
        dw[b].pc \in {"loop", "complete", "finally"} =>
            /\ Len(dw[b].results) = dw[b].idx
            /\ \A k \in 1..Len(dw[b].results) : dw[b].results[k].name = dw[b].names[k]
            /\ dw[b].pc \in {"complete", "finally"} =>
                  Len(dw[b].results) = Len(dw[b].names)

\* C6 witness: the only batch has run its loop over two names to the end; its
\* first delete failed and the second name was still attempted, and deleted.
C6_Witness ==
    /\ Cardinality(DeleteIds \ FreeDelete) = 1
    /\ \E b \in DeleteIds :
          /\ dw[b].pc = "complete"
          /\ Len(dw[b].names) = 2
          /\ dw[b].results[1].message = "other"
          /\ dw[b].results[2].success

\* the indices of the successful results
Succeeded(results) == {k \in 1..Len(results) : results[k].success}

\* C7: when a batch completes, the names with a successful result leave the
\* selection and no other name's membership changes; the counts reported are
\* the numbers of successful and of failed results and sum to the batch size.
C7_CompletionEffect ==
    [][\A b \in DeleteIds :
          (dw[b].pc = "complete" /\ dw'[b].pc = "finally") =>
             LET results == dw[b].results
                 deleted == {results[k].name : k \in Succeeded(results)}
             IN  /\ \A n \in deleted : n \notin selected_branches'
                 /\ \A n \in Names \ deleted :
                       (n \in selected_branches') = (n \in selected_branches)
                 /\ dw'[b].success_count = Cardinality(Succeeded(results))
                 /\ dw'[b].failure_count =
                       Cardinality((1..Len(results)) \ Succeeded(results))
                 /\ dw'[b].success_count + dw'[b].failure_count = Len(dw[b].names)
      ]_vars

\* C7 witness: a batch over two selected names has completed, one deleted and
\* one not found: the counts are 1 and 1, the deleted name is unselected and
\* the other is still selected.
C7_Witness ==
    /\ Cardinality(DeleteIds \ FreeDelete) = 1
    /\ \E b \in DeleteIds :
          /\ dw[b].pc = "finally"
          /\ Len(dw[b].results) = 2
          /\ dw[b].results[1].success
          /\ dw[b].results[2].message = "not_found"
          /\ dw[b].success_count = 1
          /\ dw[b].failure_count = 1
          /\ dw[b].results[1].name \notin selected_branches
          /\ dw[b].results[2].name \in selected_branches

\* C8: a delete_selected made while a deletion batch is active is rejected,
\* so at most one deletion batch is in progress at any time.
C8_AtMostOneBatch == Cardinality(ActiveDelete) <= 1

\* the registry holds exactly one placeholder per name of `branches`
OnlyPlaceholders(data, branches) ==
    /\ Len(data) = Len(branches)
    /\ {data[k].name : k \in 1..Len(data)} = {branches[k] : k \in 1..Len(branches)}
    /\ \A k \in 1..Len(data) : data[k].status = "fetching"

\* C9: at the step that completes stage 2 of a run (the last placeholder is
\* delivered, or the listing was empty) the registry holds exactly one record
\* per listed name, each with status fetching.
C9_RegistryAfterStage2 ==
    [][\A r \in FetchIds :
          (fw[r].pc \in {"list", "s2"} /\ fw'[r].pc = "merged")
             => OnlyPlaceholders(branches_data', fw'[r].branches)
      ]_vars

\* C10: a run whose listing call failed is over: it goes through none of the
\* stages 3 to 5 and does not get to report a successful load.
C10_ListingFailureIsFatal ==
    \A r \in FetchIds :
        fw[r].listFailed =>
            fw[r].pc \notin {"merged", "s3", "closed", "s4", "pool", "s5", "finish"}

----------------------------------------------------------------------------
(* Properties of the fetch pipeline *)

\* the registry's record of `name`
RecordOf(data, name) == data[FirstIndex(FindBranch(data, name))]

\* the stage of the pipeline that builds a record like `info`
Stage(info) ==
    CASE info.status # "fetching"       -> 5
      [] info.pr_status # "fetching"    -> 4
      [] info.merge_status # "fetching" -> 3
      [] OTHER                          -> 2

\* run r delivers a stage 5 record in this step
DeliversFinal(r) == Len(fw'[r].delivered) = Len(fw[r].delivered) + 1

\* the record it delivers
FinalDelivered(r) == fw'[r].delivered[Len(fw'[r].delivered)]

\* fetch_branches of run r returns in this step
Returns(r) == fw[r].pc = "finish" /\ fw'[r].pc = "done"

\* the names a run has listed
Listed(w) == {w.branches[k] : k \in 1..Len(w.branches)}

\* C11: when the resolution of the repository name or of the trunk fails,
\* the run ends there with its one error message: it has listed nothing and
\* delivered nothing, and the registry, cleared by the refresh, is empty.
C11_RepoFailureAborts ==
    [][\A r \in FetchIds :
          (fw[r].pc = "repo" /\ fw'[r].pc = "failed") =>
             /\ fw'[r] = FailedFetch
             /\ gh'.branches = gh.branches
             /\ branches_data' = <<>>
      ]_vars

\* C12: a run whose merged-PR fetch failed gives every branch
\* merge_status not_merged, and a run whose closed-PR fetch failed gives
\* every branch pr_status not_closed, in the final records it delivers.
C12_FailedSetIsEmpty ==
    \A r \in FetchIds : \A k \in 1..Len(fw[r].delivered) :
        /\ fw[r].mergedFailed => fw[r].delivered[k].merge_status = "not_merged"
        /\ fw[r].closedFailed => fw[r].delivered[k].pr_status = "not_closed"

\* C13: the final record of a branch whose compare call failed has status
\* unknown and the merge and PR status of the stage 4 record it replaces,
\* and its delivery leaves the record of every other branch as it was.
C13_FailureIsolated ==
    [][\A r \in FetchIds :
          (DeliversFinal(r) /\ FinalDelivered(r).status = "unknown") =>
             LET info == FinalDelivered(r) IN
             /\ \A k \in FindBranch(branches_data, info.name) :
                    Stage(branches_data[k]) = 4 =>
                       /\ info.merge_status = branches_data[k].merge_status
                       /\ info.pr_status = branches_data[k].pr_status
             /\ \A n \in RegistryNames \ {info.name} :
                    RecordOf(branches_data', n) = RecordOf(branches_data, n)
      ]_vars

\* the records the application and the manager hold
StoredRecords ==
    {branches_data[k] : k \in 1..Len(branches_data)}
      \cup {gh.branches[k] : k \in 1..Len(gh.branches)}
      \cup UNION {{fw[r].delivered[k] : k \in 1..Len(fw[r].delivered)} : r \in FetchIds}

\* C14: every record delivered or stored with is_protected or is_default
\* set has status protected, and no compare request is in flight for a
\* branch whose name matches the protected pattern or is the trunk.
C14_ProtectedNeverCompared ==
    /\ \A info \in StoredRecords :
          (info.is_protected \/ info.is_default) => info.status = "protected"
    /\ \A r \in FetchIds : \A n \in Comparing(fw[r]) : ~ProtectedOrDefault(n)

\* C14 witness: the records of the trunk and of the other protected branch
\* are in the registry with status protected while the compare requests of
\* two other branches are in flight.
C14_Witness ==
    /\ \E k \in 1..Len(branches_data) :
          branches_data[k].is_default /\ branches_data[k].status = "protected"
    /\ \E k \in 1..Len(branches_data) :
          /\ branches_data[k].is_protected /\ ~branches_data[k].is_default
          /\ branches_data[k].status = "protected"
    /\ \E r \in FetchIds : Cardinality(Comparing(fw[r])) = 2

\* C15: when a run completes the registry holds, for every branch of the
\* run, the final record the run got for it, which its own compare answer
\* determines: the order in which the tasks completed has no part in it.
C15_FinalRegistryOrderFree ==
    [][\A r \in FetchIds :
          Returns(r) =>
             \A k \in 1..Len(fw[r].delivered) :
                LET info == fw[r].delivered[k] IN
                /\ info.name \in RegistryNames
                /\ RecordOf(branches_data, info.name) = info
                /\ \E a \in CompareAnswersFor(info.name) :
                       info = GetBranchInfo(gh, info.name, a)
      ]_vars

\* C16: the registry holds one record per name; while it is not cleared the
\* record of a branch is only ever replaced by a record of the same or a
\* later stage; and when a run completes it holds a stage 5 record for
\* every branch the run listed.
C16_LaterStageSupersedes ==
    [][/\ \A n \in RegistryNames : Cardinality(FindBranch(branches_data, n)) = 1
       /\ \A n \in RegistryNames \cap {branches_data'[k].name : k \in 1..Len(branches_data')} :
             Stage(RecordOf(branches_data', n)) >= Stage(RecordOf(branches_data, n))
       /\ \A r \in FetchIds :
             Returns(r) =>
                \A n \in Listed(fw[r]) :
                   n \in RegistryNames /\ Stage(RecordOf(branches_data, n)) = 5
      ]_vars

\* the compare requests in flight against the remote
InFlight ==
    UNION {{<<r, n>> : n \in Comparing(fw[r])} : r \in FetchIds}

\* C17: at every moment at most max_workers compare requests are in flight.
C17_InFlightWithinPool == Cardinality(InFlight) <= max_workers

\* C18: the sequence a run returns has exactly one final record for each
\* branch it listed and nothing else, in the order in which the run
\* delivered them.
C18_ReturnedSequence ==
    [][\A r \in FetchIds :
          Returns(r) =>
             /\ Len(gh.branches) = Len(fw[r].branches)
             /\ {gh.branches[k].name : k \in 1..Len(gh.branches)} = Listed(fw[r])
             /\ \A k \in 1..Len(gh.branches) : Stage(gh.branches[k]) = 5
             /\ gh.branches = fw[r].delivered
      ]_vars

\* C19: in stage 5 of a run over n branches the k-th completion, whatever
\* its outcome, is reported to the progress sink exactly when k = 1, k is a
\* multiple of 5 or k = n; so the last completion is always reported.
C19_ProgressSchedule ==
    [][\A r \in FetchIds :
          DeliversFinal(r) =>
             LET k == Len(fw'[r].delivered)
                 n == Len(fw[r].branches)
             IN  /\ (fw'[r].reported = k) <=> (k = 1 \/ k % 5 = 0 \/ k = n)
                 /\ fw'[r].reported # k => fw'[r].reported = fw[r].reported
                 /\ fw'[r].pc = "finish" => fw'[r].reported = n
      ]_vars

\* C19 witness: five of six branches have completed, one of them with a
\* failed compare; the first and the fifth completion were reported and
\* none between them.
C19_Witness ==
    \E r \in FetchIds :
        /\ Len(fw[r].branches) = 6
        /\ Len(fw[r].delivered) = 5
        /\ fw[r].reported = 5
        /\ \E k \in 1..4 : fw[r].delivered[k].status = "unknown"

\* the branches auto_select_merged is to add
MergedAndSafe(data) ==
    {n \in {data[k].name : k \in 1..Len(data)} :
        \E k \in 1..Len(data) :
            /\ data[k].name = n
            /\ data[k].is_protected = FALSE
            /\ data[k].is_default = FALSE
            /\ data[k].merge_status = "merged"
            /\ data[k].status \in {"identical", "behind"}}

\* C20: auto_select_merged adds to the selection exactly the branches that
\* are not protected, not default, merged and identical or behind, and
\* removes none (in SpecSelect a step that leaves a selection is
\* auto_select_merged).
C20_AutoSelectExact ==
    [][selected_branches' # {} =>
          selected_branches' = selected_branches \cup MergedAndSafe(branches_data)
      ]_vars

\* C20 witness: the registry holds a protected merged branch, a merged
\* branch that is ahead and a branch that is behind but not merged, the last
\* selected by hand; auto_select_merged has added the fourth, merged and
\* identical, and nothing else.
C20_Witness ==
    /\ gh.merged_branches = {"main", "feat", "wip"}
    /\ RecordOf(branches_data, "main").status = "protected"
    /\ RecordOf(branches_data, "wip").status = "ahead"
    /\ RecordOf(branches_data, "fix").status = "behind"
    /\ RecordOf(branches_data, "feat").status = "identical"
    /\ selected_branches = {"fix", "feat"}

\* C21: the table is a permutation of the filtered records in the order of
\* the sort mode: by name ascending; by the priority protected 0, diverged 1,
\* ahead 2, behind 3, identical 4, fetching 5, unknown 6, any other 7, ties
\* by name; or the merged records before the others, each group by name.
C21_DisplayOrder ==
    LET rec(n) == RecordOf(branches_data, n)
        alphabet == <<"a", "c", "d", "e", "f", "i", "m", "n", "o", "p", "t", "v", "w", "x">>
        rank(c) == CHOOSE k \in 1..Len(alphabet) : alphabet[k] = c
        lexLess(x, y) ==
            \E k \in 1..(Len(y)) :
                /\ \A j \in 1..(k - 1) : j <= Len(x) /\ x[j] = y[j]
                /\ (k > Len(x) \/ rank(x[k]) < rank(y[k]))
        nameLess(a, b) == lexLess(Chars(a), Chars(b))
        priority(s) ==
            CASE s = "protected" -> 0
              [] s = "diverged"  -> 1
              [] s = "ahead"     -> 2
              [] s = "behind"    -> 3
              [] s = "identical" -> 4
              [] s = "fetching"  -> 5
              [] s = "unknown"   -> 6
              [] OTHER           -> 7
        group(n) == IF rec(n).merge_status = "merged" THEN 0 ELSE 1
        before(a, b) ==
            CASE sort_mode = "name"   -> nameLess(a, b)
              [] sort_mode = "status" ->
                    \/ priority(rec(a).status) < priority(rec(b).status)
                    \/ priority(rec(a).status) = priority(rec(b).status) /\ nameLess(a, b)
              [] sort_mode = "merged" ->
                    \/ group(a) < group(b)
                    \/ group(a) = group(b) /\ nameLess(a, b)
    IN  /\ sort_mode \in SortModes
        /\ Rows(table) = {n \in RegistryNames : MatchesFilter(filter_text, n)}
        /\ Cardinality(Rows(table)) = Len(table)
        /\ \A i, j \in 1..Len(table) : i < j => before(table[i], table[j])

\* C21 witness: the user has cycled to the status mode over a registry with
\* a protected trunk, a branch whose status the table does not list, and two
\* branches that are both behind: the trunk is on top, the two come next by
\* name, the unlisted status is last.
C21_Witness ==
    /\ sort_mode = "status"
    /\ filter_text = <<>>
    /\ RecordOf(branches_data, "main").status = "protected"
    /\ RecordOf(branches_data, "feat").status = "other"
    /\ RecordOf(branches_data, "fix").status = "behind"
    /\ RecordOf(branches_data, "wip").status = "behind"
    /\ table = <<"main", "fix", "wip", "feat">>

\* C22: the rows of the table are exactly the records of the registry whose
\* name contains the filter text, whatever the case of either; with an empty
\* filter they are all the records; a change of the filter or of the sort
\* mode changes neither the registry nor the selection; and filtering the
\* sorted records gives the sequence that sorting the filtered records gives.
C22_FilterExact ==
    [][/\ Rows(table') = {n \in RegistryNames' :
                            \E k \in 0..(Len(Chars(n)) - Len(filter_text')) :
                                \A j \in 1..Len(filter_text') :
                                    LowerChar(Chars(n)[k + j]) = LowerChar(filter_text'[j])}
       /\ filter_text' = <<>> => Rows(table') = RegistryNames'
       /\ branches_data' = branches_data
       /\ branches_dict' = branches_dict
       /\ selected_branches' = selected_branches
       /\ SortBy(Filtered(branches_data', filter_text'), sort_mode')
            = Filtered(SortBy(branches_data', sort_mode'), filter_text')
      ]_vars

\* C22 witness: over a registry of four branches, one of them selected, the
\* user has typed "FE": the one row left is the branch feat.
C22_Witness ==
    /\ filter_text = <<"F", "E">>
    /\ Len(branches_data) = 4
    /\ selected_branches = {"fix"}
    /\ table = <<"feat">>

\* C27: toggle_selection on the row of a record that is protected or default
\* leaves the selection as it is and puts the not-selectable message, naming
\* the branch, on the status bar; on any other row it flips the membership
\* of that name and of no other; toggling a row twice gives the selection
\* back (in SpecToggle every step is a toggle_selection).
C27_ToggleEffect ==
    [][/\ \E n \in Rows(table) :
            LET b == RecordOf(branches_data, n) IN
            IF b.is_protected \/ b.is_default
            THEN /\ selected_branches' = selected_branches
                 /\ status_bar' = [kind |-> "not_selectable", name |-> n]
            ELSE /\ n \in selected_branches' <=> n \notin selected_branches
                 /\ selected_branches' \ {n} = selected_branches \ {n}
                 /\ status_bar'.kind # "not_selectable"
       /\ \A n \in Rows(table) :
            ToggleResult(branches_data,
                         ToggleResult(branches_data, selected_branches, n), n)
              = selected_branches
      ]_vars

\* C27 witness: the user has selected feat and then tried the trunk, whose
\* record is protected: feat alone is selected and the status bar says the
\* trunk cannot be selected.
C27_Witness ==
    /\ RecordOf(branches_data, "main").is_protected
    /\ selected_branches = {"feat"}
    /\ status_bar = NotSelectable("main")

\* C23: the stages of a run are strictly ordered.  The k-th delivery of
\* stage 2, 3 or 4 is the record of that stage for the k-th listed branch;
\* the merged set is fetched only by a run that has delivered the
\* placeholder of every branch it listed, the closed set only by a run that
\* has delivered every stage 3 record, and a run has a compare request in
\* flight only after it has delivered every stage 4 record.
C23_StagesOrdered ==
    [][/\ \A r \in FetchIds :
            /\ fw'[r].pc \in {"merged", "closed", "pool"} => fw'[r].i = Len(fw'[r].branches)
            /\ Comparing(fw'[r]) # {} =>
                  fw'[r].pc = "s5" /\ fw'[r].i = Len(fw'[r].branches)
            /\ \A st \in {2, 3, 4} :
                  (fw[r].pc = <<"", "s2", "s3", "s4">>[st] /\ fw'[r] # fw[r]) =>
                      /\ fw'[r].i = fw[r].i + 1
                      /\ fw'[r].branches = fw[r].branches
                      /\ fw[r].branches[fw'[r].i] \in RegistryNames'
                      /\ Stage(RecordOf(branches_data', fw[r].branches[fw'[r].i])) = st
       /\ gh'.merged_branches # gh.merged_branches =>
            \E r \in FetchIds : fw[r].pc = "merged" /\ fw[r].i = Len(fw[r].branches)
                                   /\ fw'[r].pc \in {"s3", "closed"}
       /\ gh'.closed_pr_branches # gh.closed_pr_branches =>
            \E r \in FetchIds : fw[r].pc = "closed" /\ fw[r].i = Len(fw[r].branches)
                                   /\ fw'[r].pc \in {"s4", "pool"}
      ]_vars

\* C23 witness: a run that listed two branches has a compare request in
\* flight.
C23_Witness ==
    \E r \in FetchIds :
        /\ Len(fw[r].branches) = 2
        /\ fw[r].i = 2
        /\ Comparing(fw[r]) # {}

\* C24: within a batch the deletes go out one at a time and in input order.
\* A delete is sent only when every earlier one has its result; the call
\* progress(index, total, name) made just before it carries the 1-based
\* place of the name among the names of the batch; the answer that comes
\* back is recorded for that name; and a branch leaves the remote only as
\* the answer to the one delete its batch has in flight (a worker that has
\* returned keeps nothing).
C24_SequentialDeletes ==
    [][/\ \A b \in DeleteIds :
            /\ (dw[b].pc # "deleting" /\ dw'[b].pc = "deleting") =>
                  /\ dw[b].pc = "loop"
                  /\ dw'[b].results = dw[b].results
                  /\ dw'[b].progress[1] = Len(dw[b].results) + 1
                  /\ dw'[b].progress[2] = Len(dw[b].names)
                  /\ dw'[b].progress[3] = dw[b].names[Len(dw[b].results) + 1]
            /\ (dw'[b].results # dw[b].results /\ dw'[b].pc # "done") =>
                  /\ dw[b].pc = "deleting"
                  /\ dw'[b].pc # "deleting"
                  /\ Len(dw'[b].results) = Len(dw[b].results) + 1
                  /\ SubSeq(dw'[b].results, 1, Len(dw[b].results)) = dw[b].results
                  /\ dw'[b].results[Len(dw'[b].results)].name = dw[b].progress[3]
                  /\ dw[b].progress[1] = Len(dw'[b].results)
            /\ dw'[b].progress # dw[b].progress => dw'[b].pc \in {"deleting", "done"}
       /\ remote' # remote =>
            \E b \in DeleteIds :
                /\ dw[b].pc = "deleting"
                /\ dw'[b].results # dw[b].results
                /\ remote' = remote \ {dw[b].progress[3]}
      ]_vars

\* C24 witness: a batch of two names has the result of the first and the
\* delete of the second in flight, announced as 2 of 2.
C24_Witness ==
    \E b \in DeleteIds :
        /\ dw[b].pc = "deleting"
        /\ dw[b].names = <<"feat", "fix">>
        /\ Len(dw[b].results) = 1
        /\ dw[b].progress = <<2, 2, "fix">>

\* C25: a stage 3 record carries a resolved merge status and the PR status
\* fetching; the stage 4 record that replaces the stage 3 record of a branch
\* carries the same merge status; and the stage 5 record that replaces the
\* stage 4 record of a branch carries the same merge status and the same PR
\* status.
C25_StatusCarriedOver ==
    [][\A r \in FetchIds :
          /\ (fw[r].pc = "s3" /\ fw'[r] # fw[r]) =>
                LET rec == RecordOf(branches_data', fw[r].branches[fw'[r].i]) IN
                /\ rec.merge_status \in {"merged", "not_merged"}
                /\ rec.pr_status = "fetching"
          /\ (fw[r].pc = "s4" /\ fw'[r] # fw[r]) =>
                LET name == fw[r].branches[fw'[r].i] IN
                \A k \in FindBranch(branches_data, name) :
                    Stage(branches_data[k]) = 3 =>
                        RecordOf(branches_data', name).merge_status
                          = branches_data[k].merge_status
          /\ DeliversFinal(r) =>
                \A k \in FindBranch(branches_data, FinalDelivered(r).name) :
                    Stage(branches_data[k]) = 4 =>
                        /\ FinalDelivered(r).merge_status = branches_data[k].merge_status
                        /\ FinalDelivered(r).pr_status = branches_data[k].pr_status
      ]_vars

\* C26: is_protected and is_default of a branch never change: while a
\* branch stays in the registry, every record delivered for it carries the
\* flags of the record it replaces.
C26_FlagsNeverChange ==
    [][\A n \in RegistryNames \cap {branches_data'[k].name : k \in 1..Len(branches_data')} :
          /\ RecordOf(branches_data', n).is_protected = RecordOf(branches_data, n).is_protected
          /\ RecordOf(branches_data', n).is_default = RecordOf(branches_data, n).is_default
      ]_vars

\* C28: when a run completes (fetch_branches returns, so no fatal failure),
\* the names in the registry are exactly the names the run listed, and the
\* record of each is a final one: none of its status, merge status and PR
\* status is fetching.
C28_RegistryAtCompletion ==
    [][\A r \in FetchIds :
          Returns(r) =>
             /\ RegistryNames = Listed(fw[r])
             /\ \A k \in 1..Len(branches_data) :
                   /\ branches_data[k].status # "fetching"
                   /\ branches_data[k].merge_status # "fetching"
                   /\ branches_data[k].pr_status # "fetching"
      ]_vars

\* the busy latch is free for a new request
Quiet == ActiveFetch = {} /\ ActiveDelete = {}

\* C29: under fair scheduling every fetch run that was started finishes,
\* completed or failed at stage 1, and every deletion batch that was started
\* finishes: a worker id is used for one run only, so each worker is
\* eventually out of progress for good; and whenever no run and no batch is
\* in progress the busy latch is released, so that delete_selected with a
\* selection is accepted.
C29_WorkersFinish ==
    /\ \A r \in FetchIds : <>[](r \notin ActiveFetch)
    /\ \A b \in DeleteIds : <>[](b \notin ActiveDelete)
    /\ [](Quiet => (~loading /\ (selected_branches # {} =>
                                     DeleteAccepted(selected_branches, loading))))

\* C29 witness: a batch has finished, the run that its completion started
\* has failed at stage 1, nothing is in progress and the latch is released.
C29_Witness ==
    /\ \E b \in DeleteIds : dw[b].pc = "done"
    /\ \E r \in FetchIds : fw[r].pc = "failed"
    /\ Quiet
    /\ ~loading


\* the state the UI thread owns
Owned == <<branches_data, branches_dict, selected_branches, filter_text, sort_mode>>

\* a worker thread that was running took the step
FetchWorkerMoved == \E r \in ActiveFetch : fw'[r] # fw[r]

DeleteWorkerMoved == \E b \in ActiveDelete : dw'[b] # dw[b]

\* the registry after one _handle_branch_update: one record replaced in
\* place or one record appended, and the index of no other name touched
OneBranchUpdate ==
    /\ \/ /\ Len(branches_data') = Len(branches_data)
          /\ Cardinality({k \in 1..Len(branches_data) :
                             branches_data'[k] # branches_data[k]}) <= 1
          /\ branches_dict' = branches_dict
       \/ /\ Len(branches_data') = Len(branches_data) + 1
          /\ SubSeq(branches_data', 1, Len(branches_data)) = branches_data
          /\ DOMAIN branches_dict' =
                 DOMAIN branches_dict \cup {branches_data'[Len(branches_data')].name}
          /\ \A n \in DOMAIN branches_dict : branches_dict'[n] = branches_dict[n]
    /\ UNCHANGED <<selected_branches, filter_text, sort_mode>>

\* the owned state after one _handle_deletion_complete: names leave the
\* selection and action_refresh empties the registry
OneDeletionComplete ==
    /\ \E b \in ActiveDelete : dw[b].pc = "complete" /\ dw'[b].pc = "finally"
    /\ selected_branches' \subseteq selected_branches
    /\ branches_data' = <<>>
    /\ branches_dict' = EmptyDict
    /\ UNCHANGED <<filter_text, sort_mode>>

\* C30: a step of a worker thread changes the registry, the selection, the
\* filter and the sort mode by what one callback handed to call_from_thread
\* does on the UI thread, one update at a time: a fetch worker's step leaves
\* them alone or is one _handle_branch_update, a deletion worker's step
\* leaves them alone or is one _handle_deletion_complete; every other change
\* of them is the step of a key handler.
C30_OwnerWritesOnly ==
    [][/\ FetchWorkerMoved => (UNCHANGED Owned \/ OneBranchUpdate)
       /\ DeleteWorkerMoved => (UNCHANGED Owned \/ OneDeletionComplete)
      ]_vars

\* C30 witness: a deletion worker has delivered its completion and the fetch
\* worker started by it has delivered records that replaced placeholders
C30_Witness ==
    /\ \E b \in DeleteIds : dw[b].pc = "finally"
    /\ \E r \in FetchIds : fw[r].pc = "s5"
    /\ Len(branches_data) >= 2
    /\ \E k \in 1..Len(branches_data) : branches_data[k].status # "fetching"


\* the fetch workers that have executed `self._loading = True` and have not
\* returned
RunningFetch == {r \in FetchIds : fw[r].pc \notin {"idle", "start", "done", "failed"}}

\* the deletion workers that have executed `self._loading = True` and have
\* not returned
RunningDelete == {b \in DeleteIds : dw[b].pc \notin {"idle", "start", "done"}}

\* C31: _loading is True in every state in which a worker past its first
\* statement has not returned; while a fetch run is in that part no
\* delete_selected opens the confirmation dialog and no DELETE is sent.
C31_BusyWhileActive ==
    [][/\ (RunningFetch' # {} \/ RunningDelete' # {}) => loading'
       /\ RunningFetch # {} =>
             /\ ~(dialog.state = "closed" /\ dialog'.state = "open")
             /\ \A b \in DeleteIds : ~(dw[b].pc = "loop" /\ dw'[b].pc = "deleting")
      ]_vars


\* a fetch run is started in this step: action_refresh has run
RefreshStep == \E r \in FetchIds : fw[r].pc = "idle" /\ fw'[r].pc = "start"

\* the selection as the caller of action_refresh leaves it: the `r` key
\* does nothing before the call, _handle_deletion_complete has removed the
\* names deleted with success
SelectionAtRefresh ==
    IF \E b \in DeleteIds : dw[b].pc = "complete" /\ dw'[b].pc = "finally"
    THEN selected_branches \
            UNION {SuccessNames(dw[b].results) :
                      b \in {d \in DeleteIds : dw[d].pc = "complete" /\ dw'[d].pc = "finally"}}
    ELSE selected_branches

\* C32: a refresh empties the list and the mapping of the registry and
\* leaves filter_text, sort_mode and the selection as they were when
\* action_refresh was called, whether or not the registry holds the names.
C32_RefreshFrame ==
    [][RefreshStep =>
          /\ branches_data' = <<>>
          /\ branches_dict' = EmptyDict
          /\ filter_text' = filter_text
          /\ sort_mode' = sort_mode
          /\ selected_branches' = SelectionAtRefresh
      ]_vars

\* C32 witness: a refresh was requested under a filter and a sort mode the
\* user had set, its run has not begun, and a selected name is no longer in
\* the registry
C32_Witness ==
    /\ \E r \in FetchIds : fw[r].pc = "start"
    /\ branches_data = <<>>
    /\ selected_branches # {}
    /\ filter_text # <<>>
    /\ sort_mode # "name"


\* the letters of the branch names, in code point order
Alphabet == <<"a", "c", "d", "e", "f", "i", "m", "n", "o", "p", "t", "v", "w", "x">>

\* a < b as Python compares strings
NameBefore(a, b) ==
    LET x == Chars(a)
        y == Chars(b)
        rank(c) == CHOOSE k \in 1..Len(Alphabet) : Alphabet[k] = c
    IN \E k \in 1..Len(y) :
          /\ \A j \in 1..(k - 1) : j <= Len(x) /\ x[j] = y[j]
          /\ (k > Len(x) \/ rank(x[k]) < rank(y[k]))

\* `names` lists exactly the set S, in ascending order
AscendingListOf(names, S) ==
    /\ {names[k] : k \in 1..Len(names)} = S
    /\ \A i, j \in 1..Len(names) : i < j => NameBefore(names[i], names[j])

\* C33: the list the confirmation dialog is opened with is the selection at
\* that moment in ascending name order; it does not change while the dialog
\* is up; the batch that check_delete starts gets exactly that list; the
\* batch passes to delete_branch the next name of its list and nothing else,
\* and when its loop is over it has attempted the whole list in order.
C33_BatchIsTheConfirmedList ==
    [][/\ (dialog.state = "closed" /\ dialog'.state = "open") =>
             AscendingListOf(dialog'.names, selected_branches)
       /\ (dialog.state # "closed" /\ dialog'.state # "closed") =>
             dialog'.names = dialog.names
       /\ \A b \in DeleteIds :
             /\ (dw[b].pc = "idle" /\ dw'[b].pc = "start") =>
                   /\ dialog.state = "dismissed"
                   /\ dialog.result = "yes"
                   /\ dw'[b].names = dialog.names
                   /\ dw'[b].results = <<>>
             /\ (b \in ActiveDelete /\ dw'[b].pc # "done") =>
                   dw'[b].names = dw[b].names
             /\ (dw[b].pc = "loop" /\ dw'[b].pc = "deleting") =>
                   /\ Len(dw[b].results) < Len(dw[b].names)
                   /\ dw'[b].progress[3] = dw[b].names[Len(dw[b].results) + 1]
                   /\ dw'[b].results = dw[b].results
             /\ (dw[b].pc = "deleting" /\ dw'[b] # dw[b]) =>
                   /\ Len(dw'[b].results) = Len(dw[b].results) + 1
                   /\ SubSeq(dw'[b].results, 1, Len(dw[b].results)) = dw[b].results
                   /\ dw'[b].results[Len(dw'[b].results)].name
                          = dw[b].names[Len(dw[b].results) + 1]
             /\ (dw[b].pc # "complete" /\ dw'[b].pc = "complete") =>
                   /\ Len(dw'[b].results) = Len(dw'[b].names)
                   /\ \A k \in 1..Len(dw'[b].names) :
                         dw'[b].results[k].name = dw'[b].names[k]
      ]_vars

\* C33 witness: fix and feat were selected and confirmed; the batch has
\* attempted feat and then fix, and its completion is not yet delivered
C33_Witness ==
    /\ selected_branches = {"fix", "feat"}
    /\ \E b \in DeleteIds :
          /\ dw[b].pc = "complete"
          /\ dw[b].names = <<"feat", "fix">>
          /\ Len(dw[b].results) = 2
          /\ dw[b].results[1].name = "feat"
          /\ dw[b].results[2].name = "fix"


\* C34: the keys of branches_dict are exactly the names in branches_data,
\* no name is in branches_data twice, and the record at the index a name is
\* mapped to is the record of that name.
C34_DictAgreesWithData ==
    /\ DOMAIN branches_dict = {branches_data[k].name : k \in 1..Len(branches_data)}
    /\ \A i, j \in 1..Len(branches_data) :
          branches_data[i].name = branches_data[j].name => i = j
    /\ \A n \in DOMAIN branches_dict :
          /\ branches_dict[n] \in 1..Len(branches_data)
          /\ branches_data[branches_dict[n]].name = n

\* C34 witness: a second refresh has cleared the registry, and deliveries
\* have since appended two records and replaced one of them by its final
\* record
C34_Witness ==
    /\ FreeFetch = {}
    /\ Len(branches_data) = 2
    /\ \E k \in 1..2 : branches_data[k].status = "fetching"
    /\ \E k \in 1..2 : branches_data[k].status \notin {"fetching", "unknown"}

====
